---- MODULE Spec2Model ----
(***************************************************************************)
(* Environment adapters of libs/environments/gym.py and                    *)
(* libs/environments.py: Gym, GymAtari, GymAtariPong, GymEnvironment,      *)
(* UnityMLVectorEnvironment and UnityMLVisualEnvironmentSimple.            *)
(*                                                                         *)
(* Arrays are numpy arrays: a buffer of elements on a heap, and views      *)
(* (offset, shape, strides) onto a buffer.  A buffer stores only its       *)
(* non-zero elements (flat index |-> value); every other element is zero.  *)
(* Integer dtypes hold integers; float dtypes hold exact rationals         *)
(* <<numerator, denominator>> (rounding of floats is not represented).     *)
(***************************************************************************)
EXTENDS Integers, Sequences, FiniteSets, TLC

VARIABLES
    cls,          \* class of the adapter instance
    cfg,          \* self.seed, self.one_hot, self.action_bins, self.normalize, ...
    heap,         \* buffer name |-> buffer, the arrays that are alive
    full_state,   \* self.full_state: a view, or None
    env,          \* the underlying environment: started, last action received
    ret,          \* outcome of the last call: operation, result kind, returned state
    held,         \* a state returned earlier that the caller still holds
    hist,         \* processed frames since the last reset, F0 first
    ever_reset,   \* whether reset() has been called on the instance
    pre           \* pre-processor harness: input before/after, output view

vars == <<cls, cfg, heap, full_state, env, ret, held, hist, ever_reset, pre>>

None == "None"

----------------------------------------------------------------------------
(* numpy: element values                                                    *)

IsFloat(dtype) == dtype \in {"float32", "float64"}

Zero(dtype) == IF IsFloat(dtype) THEN <<0, 1>> ELSE 0

IsZero(dtype, v) == IF IsFloat(dtype) THEN v[1] = 0 ELSE v = 0

\* value v of dtype `from` stored into an array of dtype `to`
Cast(v, from, to) ==
    IF IsFloat(to) /\ ~IsFloat(from) THEN <<v, 1>> ELSE v

----------------------------------------------------------------------------
(* numpy: buffers and views                                                 *)

RECURSIVE Prod(_)
Prod(s) == IF s = <<>> THEN 1 ELSE Head(s) * Prod(Tail(s))

RECURSIVE Dot(_, _)
Dot(a, b) == IF a = <<>> THEN 0 ELSE Head(a) * Head(b) + Dot(Tail(a), Tail(b))

\* strides (in elements) of a C-contiguous array of this shape
RECURSIVE CStrides(_)
CStrides(shape) ==
    IF shape = <<>> THEN <<>>
    ELSE <<Prod(Tail(shape))>> \o CStrides(Tail(shape))

View(buf, off, shape, str) == [buf |-> buf, off |-> off, shape |-> shape, str |-> str]

Contig(buf, shape) == View(buf, 0, shape, CStrides(shape))

\* no array: Python's None where an array is expected
NoView == View(None, 0, <<>>, <<>>)

IsContiguous(v) == v.off = 0 /\ v.str = CStrides(v.shape)

EmptyNz == [p \in {} |-> 0]

Buffer(dtype, nz) == [dtype |-> dtype, nz |-> nz]

FlatIndex(v, idx) == v.off + Dot(idx, v.str)

\* v[idx]
At(h, v, idx) ==
    LET b == h[v.buf]
        p == FlatIndex(v, idx)
    IN  IF p \in DOMAIN b.nz THEN b.nz[p] ELSE Zero(b.dtype)

NoIndex == <<-1>>

\* the index at which view (shape, str) addresses the element `rem` elements
\* past its offset, or NoIndex when the view does not address it
RECURSIVE Unravel(_, _, _)
Unravel(rem, shape, str) ==
    IF shape = <<>> THEN (IF rem = 0 THEN <<>> ELSE NoIndex)
    ELSE LET i == rem \div Head(str)
             rest == Unravel(rem % Head(str), Tail(shape), Tail(str))
         IN  IF rem < 0 \/ i >= Head(shape) \/ rest = NoIndex THEN NoIndex
             ELSE <<i>> \o rest

\* the indices of v's non-zero elements
NzIndices(h, v) ==
    { Unravel(p - v.off, v.shape, v.str) : p \in DOMAIN h[v.buf].nz } \ {NoIndex}

\* the value of an array: shape, dtype and non-zero elements by index
Contents(h, v) ==
    [shape |-> v.shape, dtype |-> h[v.buf].dtype,
     nz |-> [idx \in NzIndices(h, v) |-> At(h, v, idx)]]

NoContents == [shape |-> <<>>, dtype |-> None, nz |-> EmptyNz]

ValAt(c, idx) == IF idx \in DOMAIN c.nz THEN c.nz[idx] ELSE Zero(c.dtype)

\* a new buffer `name` holding the array value c
Alloc(h, name, c) ==
    LET v == Contig(name, c.shape)
        cells == { FlatIndex(v, idx) : idx \in DOMAIN c.nz }
        nz == [p \in cells |-> c.nz[Unravel(p, v.shape, v.str)]]
    IN  [n \in DOMAIN h \cup {name} |-> IF n = name THEN Buffer(c.dtype, nz) ELSE h[n]]

\* v.copy()
Copy(h, v, name) == Alloc(h, name, Contents(h, v))

\* dst[...] = c for an array value c of dst's shape: every element of the
\* view is overwritten, the rest of the buffer is kept
Assign(h, dst, c) ==
    LET b == h[dst.buf]
        inView == { p \in DOMAIN b.nz : Unravel(p - dst.off, dst.shape, dst.str) # NoIndex }
        new == { FlatIndex(dst, idx) : idx \in DOMAIN c.nz }
        keep == DOMAIN b.nz \ inView
        nz == [p \in keep \cup new |->
                 IF p \in new
                 THEN Cast(c.nz[Unravel(p - dst.off, dst.shape, dst.str)], c.dtype, b.dtype)
                 ELSE b.nz[p]]
    IN  [h EXCEPT ![dst.buf] = Buffer(b.dtype, nz)]

\* dst[...] = src for views of one heap
Move(h, dst, src) == Assign(h, dst, Contents(h, src))

\* v[mask] = y, for a mask that selects the elements with a value in `hits`,
\* none of them zero (as the source's masks == 144, == 109 and != 0)
MaskedAssign(h, v, hits, y) ==
    LET b == h[v.buf]
        hit == { p \in DOMAIN b.nz :
                   Unravel(p - v.off, v.shape, v.str) # NoIndex /\ b.nz[p] \in hits }
        after == [p \in DOMAIN b.nz |-> IF p \in hit THEN y ELSE b.nz[p]]
        nz == [p \in { q \in DOMAIN after : ~IsZero(b.dtype, after[q]) } |-> after[p]]
    IN  [h EXCEPT ![v.buf] = Buffer(b.dtype, nz)]

Min(a, b) == IF a < b THEN a ELSE b

Max(a, b) == IF a > b THEN a ELSE b

\* v[..., start:stop:step, ...] on axis k
SliceAxis(v, k, start, stop, step) ==
    LET hi == Min(stop, v.shape[k])
        n == IF hi > start THEN (hi - start + step - 1) \div step ELSE 0
    IN  View(v.buf, v.off + start * v.str[k],
             [v.shape EXCEPT ![k] = n], [v.str EXCEPT ![k] = @ * step])

DropAt(s, k) == SubSeq(s, 1, k - 1) \o SubSeq(s, k + 1, Len(s))

\* v[..., i, ...] on axis k: the axis is dropped
IndexAxis(v, k, i) ==
    View(v.buf, v.off + i * v.str[k], DropAt(v.shape, k), DropAt(v.str, k))

\* one more than the largest offset a view (shape, str) addresses
Extent(shape, str) == 1 + Dot([k \in DOMAIN shape |-> shape[k] - 1], str)

\* v.reshape(shape), where numpy can do it without copying: a contiguous
\* array, or one more leading axis of length 1.  NoView: the sizes differ.
Reshape(v, shape) ==
    IF Prod(shape) # Prod(v.shape) THEN NoView
    ELSE IF IsContiguous(v) THEN Contig(v.buf, shape)
    ELSE IF shape = <<1>> \o v.shape
         THEN View(v.buf, v.off, shape, <<Extent(v.shape, v.str)>> \o v.str)
    ELSE NoView

Free(h, names) == [n \in DOMAIN h \ names |-> h[n]]

NoHeap == [n \in {} |-> 0]

\* the buffer `from` under the name `to`
Rename(h, from, to) ==
    [n \in (DOMAIN h \ {from}) \cup {to} |-> IF n = to THEN h[from] ELSE h[n]]

\* v[idx] = x for one element
SetAt(h, v, idx, x) ==
    LET b == h[v.buf]
        p == FlatIndex(v, idx)
        cells == IF IsZero(b.dtype, x) THEN DOMAIN b.nz \ {p} ELSE DOMAIN b.nz \cup {p}
    IN  [h EXCEPT ![v.buf] = Buffer(b.dtype, [q \in cells |-> IF q = p THEN x ELSE b.nz[q]])]

----------------------------------------------------------------------------
(* Frame pre-processors                                                     *)

FrameH == 210
FrameW == 160
OutSize == 80
CropTop == 35
CropBottom == 195
Stride == 2
Background1 == 144
Background2 == 109

\* the values of a uint8 element
UInt8 == 0..255

RECURSIVE GCD(_, _)
GCD(a, b) == IF b = 0 THEN a ELSE GCD(b, a % b)

\* the sum of a function's values
RECURSIVE Sum(_)
Sum(f) ==
    IF DOMAIN f = {} THEN 0
    ELSE LET x == CHOOSE y \in DOMAIN f : TRUE
         IN  f[x] + Sum([y \in DOMAIN f \ {x} |-> f[y]])

\* skimage.color.rgb2gray of an H x W x 3 uint8 image: a new H x W float64
\* image, 0.2125 R + 0.7154 G + 0.0721 B of the channels scaled to [0, 1]
rgb2gray(h, v, name) ==
    LET lum(i, j) == 2125 * At(h, v, <<i, j, 0>>) + 7154 * At(h, v, <<i, j, 1>>)
                     + 721 * At(h, v, <<i, j, 2>>)
        lit == { <<idx[1], idx[2]>> : idx \in NzIndices(h, v) }
        c == [shape |-> <<v.shape[1], v.shape[2]>>, dtype |-> "float64",
              nz |-> [ij \in lit |-> <<lum(ij[1], ij[2]), 10000 * 255>>]]
    IN  [heap |-> Alloc(h, name, c), out |-> Contig(name, c.shape)]

\* input rows (columns) that output row (column) r of `outN` covers, of `inN`
Covered(r, inN, outN) == ((r * inN) \div outN) .. (((r + 1) * inN - 1) \div outN)

\* the length input cell i shares with output cell r, in units of 1/outN cell
Overlap(i, r, inN, outN) ==
    Max(0, Min((r + 1) * inN, (i + 1) * outN) - Max(r * inN, i * outN))

\* cv2.resize(v, (size, size), interpolation=cv2.INTER_AREA) of a 2-D
\* float64 image: a new size x size image, every pixel the area-weighted
\* mean of the input pixels it covers
resize(h, v, size, name) ==
    LET inH == v.shape[1]
        inW == v.shape[2]
        gH == GCD(inH, size)
        gW == GCD(inW, size)
        den == h[v.buf].nz
        unit == IF DOMAIN den = {} THEN 1
                ELSE den[CHOOSE p \in DOMAIN den : TRUE][2]
        weight(i, j, r, c) ==
            (Overlap(i, r, inH, size) \div gH) * (Overlap(j, c, inW, size) \div gW)
        num(r, c) ==
            Sum([ij \in Covered(r, inH, size) \X Covered(c, inW, size) |->
                   weight(ij[1], ij[2], r, c) * At(h, v, ij)[1]])
        touched == UNION { { <<r, c>> : r \in { q \in 0..(size - 1) : idx[1] \in Covered(q, inH, size) },
                                        c \in { q \in 0..(size - 1) : idx[2] \in Covered(q, inW, size) } }
                           : idx \in NzIndices(h, v) }
        lit == { rc \in touched : num(rc[1], rc[2]) # 0 }
        c == [shape |-> <<size, size>>, dtype |-> "float64",
              nz |-> [rc \in lit |-> <<num(rc[1], rc[2]), unit * (inH \div gH) * (inW \div gW)>>]]
    IN  [heap |-> Alloc(h, name, c), out |-> Contig(name, c.shape)]

\* GymAtari._prepro
GymAtari_prepro(h, frame) ==
    LET gray == rgb2gray(h, frame, "gray")
        small == resize(gray.heap, gray.out, OutSize, "resized")
    IN  [heap |-> Free(small.heap, {"gray"}), out |-> small.out]

\* GymAtariPong._prepro without the erasure of the second background
GymAtariPong_prepro_one_background(h, frame) ==
    LET crop == SliceAxis(frame, 1, CropTop, CropBottom, 1)
        down == IndexAxis(SliceAxis(SliceAxis(crop, 1, 0, crop.shape[1], Stride),
                                    2, 0, crop.shape[2], Stride), 3, 0)
        h1 == MaskedAssign(h, down, {Background1}, 0)
        h3 == MaskedAssign(h1, down, UInt8 \ {0}, 1)
    IN  [heap |-> h3, out |-> down]

\* GymAtariPong._prepro
GymAtariPong_prepro(h, frame) ==
    LET crop == SliceAxis(frame, 1, CropTop, CropBottom, 1)
        down == IndexAxis(SliceAxis(SliceAxis(crop, 1, 0, crop.shape[1], Stride),
                                    2, 0, crop.shape[2], Stride), 3, 0)
        h1 == MaskedAssign(h, down, {Background1}, 0)
        h2 == MaskedAssign(h1, down, {Background2}, 0)
        h3 == MaskedAssign(h2, down, UInt8 \ {0}, 1)
    IN  [heap |-> h3, out |-> down]

_prepro(c, h, frame) ==
    IF c = "GymAtariPong" THEN GymAtariPong_prepro(h, frame)
    ELSE GymAtari_prepro(h, frame)

----------------------------------------------------------------------------
(* Results of calls                                                         *)

\* a value or an exception
Ok(c) == [ok |-> TRUE, value |-> c, error |-> None]

Raise(e) == [ok |-> FALSE, value |-> NoContents, error |-> e]

\* a Python int as a 0-d array value
Scalar(s) ==
    [shape |-> <<>>, dtype |-> "int64",
     nz |-> [idx \in (IF s = 0 THEN {} ELSE {<<>>}) |-> s]]

\* c / d, numpy's true division of an array by a number
Divide(c, d) ==
    [shape |-> c.shape, dtype |-> "float64",
     nz |-> [idx \in DOMAIN c.nz |->
               LET v == Cast(c.nz[idx], c.dtype, "float64") IN <<v[1], v[2] * d>>]]

\* np.eye(n)
Eye(n) ==
    [shape |-> <<n, n>>, dtype |-> "float64",
     nz |-> [ij \in { <<i, i>> : i \in 0..(n - 1) } |-> <<1, 1>>]]

\* c[s] for an array value c and an int s
Row(c, s) ==
    [shape |-> Tail(c.shape), dtype |-> c.dtype,
     nz |-> [idx \in { Tail(i) : i \in { j \in DOMAIN c.nz : j[1] = s } } |->
               c.nz[<<s>> \o idx]]]

----------------------------------------------------------------------------
(* Gym and GymEnvironment                                                   *)

GymClasses == {"Gym", "GymEnvironment"}

\* Gym.__init__: the instance attributes.  obs_space_high is set only with
\* normalize (0 stands for the attribute that is not set).
Gym_init(seed, one_hot, action_bins, normalize, e) ==
    [seed |-> seed, one_hot |-> one_hot, action_bins |-> action_bins,
     normalize |-> normalize,
     obs_space_high |-> IF normalize THEN e.obs_high ELSE 0,
     frame_sleep |-> <<2, 100>>]

\* the state transforms with the one-hot row taken one place too far
Gym_transform_off_by_one(c, state) ==
    LET hot == IF c.one_hot # 0
               THEN IF state.shape # <<>> \/ IsFloat(state.dtype)
                       \/ ValAt(state, <<>>) >= c.one_hot
                    THEN Raise("IndexError")
                    ELSE Ok(Row(Eye(c.one_hot), (ValAt(state, <<>>) + 1) % c.one_hot))
               ELSE Ok(state)
    IN  IF hot.ok /\ c.normalize THEN Ok(Divide(hot.value, c.obs_space_high))
        ELSE hot

\* the state transforms shared by Gym.reset and Gym.step: one-hot encoding,
\* then normalization
Gym_transform(c, state) ==
    LET hot == IF c.one_hot # 0
               THEN IF state.shape # <<>> \/ IsFloat(state.dtype)
                       \/ ValAt(state, <<>>) >= c.one_hot
                       \/ ValAt(state, <<>>) < -c.one_hot
                    THEN Raise("IndexError")
                    ELSE Ok(Row(Eye(c.one_hot), (ValAt(state, <<>>) + c.one_hot) % c.one_hot))
               ELSE Ok(state)
    IN  IF hot.ok /\ c.normalize THEN Ok(Divide(hot.value, c.obs_space_high))
        ELSE hot

\* create_uniform_grid(low, high, bins) of libs/discretize.py, for a 1-D
\* space: bins[0] points spread evenly over [low, high], bounds included
create_uniform_grid(low, high, bins) ==
    << [i \in 1..bins[1] |->
          IF bins[1] = 1 THEN <<low, 1>>
          ELSE <<low * (bins[1] - 1) + (i - 1) * (high - low), bins[1] - 1>>] >>

\* Gym.step passing the grid point one place lower (the first index twice)
Gym_step_action_shifted(c, e, action) ==
    IF c.action_bins # <<>>
    THEN IF e.act # "box" THEN Raise("AttributeError")
         ELSE LET action_grid == create_uniform_grid(e.low, e.high, c.action_bins)
              IN  IF action + 1 \in DOMAIN action_grid[1]
                  THEN [ok |-> TRUE, error |-> None,
                        value |-> [list |-> TRUE, val |-> action_grid[1][Max(action, 1)]]]
                  ELSE Raise("IndexError")
    ELSE [ok |-> TRUE, error |-> None, value |-> [list |-> FALSE, val |-> <<action, 1>>]]

\* what Gym.step passes to self.env.step: the one-element list
\* [action_grid[0][action]] with action_bins, the action itself without
\* (list: whether it is a list; val: the number, as a rational)
Gym_step_action(c, e, action) ==
    IF c.action_bins # <<>>
    THEN IF e.act # "box" THEN Raise("AttributeError")
         ELSE LET action_grid == create_uniform_grid(e.low, e.high, c.action_bins)
              IN  IF action + 1 \in DOMAIN action_grid[1]
                  THEN [ok |-> TRUE, error |-> None,
                        value |-> [list |-> TRUE, val |-> action_grid[1][action + 1]]]
                  ELSE Raise("IndexError")
    ELSE [ok |-> TRUE, error |-> None, value |-> [list |-> FALSE, val |-> <<action, 1>>]]

----------------------------------------------------------------------------
(* GymAtari and GymAtariPong                                                *)

AtariClasses == {"GymAtari", "GymAtariPong"}

K == 4

\* GymAtari.__init__: Gym.__init__(name, seed), then
\* self.full_state = np.zeros((1, 4, 80, 80), dtype=np.float32)
GymAtari_full_state == Contig("full_state", <<1, K, OutSize, OutSize>>)

\* np.zeros((1, 4, 80, 80)) without the dtype
GymAtari_init_heap_float64 ==
    Alloc(NoHeap, "full_state",
          [shape |-> GymAtari_full_state.shape, dtype |-> "float64", nz |-> EmptyNz])

GymAtari_init_heap ==
    Alloc(NoHeap, "full_state",
          [shape |-> GymAtari_full_state.shape, dtype |-> "float32", nz |-> EmptyNz])

\* self.full_state[:, k, :, : :]
GymAtari_slot(fs, k) == IndexAxis(fs, 2, k)

\* GymAtari._add_frame shifting from the newest slot up: every slot ends as
\* a copy of slot 0
GymAtari_add_frame_ascending(h, fs, frame) ==
    Move(Move(Move(Move(h, GymAtari_slot(fs, 1), GymAtari_slot(fs, 0)),
                   GymAtari_slot(fs, 2), GymAtari_slot(fs, 1)),
              GymAtari_slot(fs, 3), GymAtari_slot(fs, 2)),
         GymAtari_slot(fs, 0), frame)

\* GymAtari._add_frame
GymAtari_add_frame(h, fs, frame) ==
    Move(Move(Move(Move(h, GymAtari_slot(fs, 3), GymAtari_slot(fs, 2)),
                   GymAtari_slot(fs, 2), GymAtari_slot(fs, 1)),
              GymAtari_slot(fs, 1), GymAtari_slot(fs, 0)),
         GymAtari_slot(fs, 0), frame)

\* frame = self._prepro(frame); frame = frame.reshape(1, 80, 80), from the
\* pre-processor's result p: the heap and the frame
GymAtari_frame(p) == [heap |-> p.heap, frame |-> Reshape(p.out, <<1, OutSize, OutSize>>)]

\* returning self.full_state itself
GymAtari_result_no_copy(h, fs, frame) ==
    [heap |-> h, state |-> fs, frame |-> Contents(h, frame)]

\* the state GymAtari.reset and GymAtari.step return: self.full_state.copy()
\* (frame: the value of the processed frame that was pushed)
GymAtari_result(h, fs, frame) ==
    [heap |-> Copy(h, fs, "returned"), state |-> Contig("returned", fs.shape),
     frame |-> Contents(h, frame)]

\* GymAtari.reset with three self._add_frame(frame)
GymAtari_reset_frame_three(f, fs) ==
    GymAtari_result(
        GymAtari_add_frame(
            GymAtari_add_frame(
                GymAtari_add_frame(f.heap, fs, f.frame), fs, f.frame),
            fs, f.frame),
        fs, f.frame)

\* the four self._add_frame(frame) of GymAtari.reset and its return
GymAtari_reset_frame(f, fs) ==
    GymAtari_result(
        GymAtari_add_frame(
            GymAtari_add_frame(
                GymAtari_add_frame(
                    GymAtari_add_frame(f.heap, fs, f.frame), fs, f.frame), fs, f.frame),
            fs, f.frame),
        fs, f.frame)

\* GymAtari.reset, from the frame self.env.reset() returned (buffer "obs"):
\* the heap after the call, the state returned, the processed frame
GymAtari_reset(c, h, fs, obs) == GymAtari_reset_frame(GymAtari_frame(_prepro(c, h, obs)), fs)

\* the self._add_frame(frame) of GymAtari.step and its return
GymAtari_step_frame(f, fs) ==
    GymAtari_result(GymAtari_add_frame(f.heap, fs, f.frame), fs, f.frame)

\* GymAtari.step, from the frame self.env.step(action) returned
GymAtari_step(c, h, fs, obs) == GymAtari_step_frame(GymAtari_frame(_prepro(c, h, obs)), fs)

----------------------------------------------------------------------------
(* UnityMLVisualEnvironmentSimple and UnityMLVectorEnvironment              *)

UnitySize == 84

UnityObsShape == <<1, UnitySize, UnitySize, 3>>

UnityFrameTail == <<3, UnitySize, UnitySize>>

\* self.full_state[:, :, k, :, : :]
Unity_slot(fs, k) == IndexAxis(fs, 3, k)

\* UnityMLVisualEnvironmentSimple._add_frame
Unity_add_frame(h, fs, frame) ==
    Move(Move(Move(Move(h, Unity_slot(fs, 3), Unity_slot(fs, 2)),
                   Unity_slot(fs, 2), Unity_slot(fs, 1)),
              Unity_slot(fs, 1), Unity_slot(fs, 0)),
         Unity_slot(fs, 0), frame)

\* the shape of np.stack((frame, frame, frame, frame), axis=2)
Unity_stack_shape(shape) == SubSeq(shape, 1, 2) \o <<4>> \o SubSeq(shape, 3, Len(shape))

\* np.stack((frame, frame, frame, frame), axis=2): a new array `name`
Unity_stack(h, frame, name) ==
    Move(Move(Move(Move(Alloc(h, name, [shape |-> Unity_stack_shape(frame.shape),
                                        dtype |-> h[frame.buf].dtype, nz |-> EmptyNz]),
                        Unity_slot(Contig(name, Unity_stack_shape(frame.shape)), 0), frame),
                   Unity_slot(Contig(name, Unity_stack_shape(frame.shape)), 1), frame),
              Unity_slot(Contig(name, Unity_stack_shape(frame.shape)), 2), frame),
         Unity_slot(Contig(name, Unity_stack_shape(frame.shape)), 3), frame)

\* frame = info.visual_observations[0].reshape(-1, 3, 84, 84)
Unity_frame(obs) == Reshape(obs, <<Prod(obs.shape) \div Prod(UnityFrameTail)>> \o UnityFrameTail)

\* UnityMLVisualEnvironmentSimple.reset, from info.visual_observations[0]
\* (buffer "obs"): self.full_state is bound to a new array, which is returned
Unity_reset_frame(h, frame) ==
    [heap |-> Unity_stack(h, frame, "full_state"),
     state |-> Contig("full_state", Unity_stack_shape(frame.shape)),
     frame |-> Contents(h, frame)]

Unity_reset(h, obs) == Unity_reset_frame(h, Unity_frame(obs))

\* UnityMLVisualEnvironmentSimple.step: self.full_state itself is returned
Unity_step_frame(h, fs, frame) ==
    [heap |-> Unity_add_frame(h, fs, frame), state |-> fs, frame |-> Contents(h, frame)]

Unity_step(h, fs, obs) == Unity_step_frame(h, fs, Unity_frame(obs))

----------------------------------------------------------------------------
(* Pre-processor harness: process(rawFrame) applied to one raw frame        *)

MaxPixels == 2

\* places of a raw frame: inside and outside the crop, on and off the
\* subsampling grid, in each channel
PixelSites ==
    { <<CropTop, 0, 0>>, <<CropTop - 1, 0, 0>>, <<CropTop + 1, 1, 0>>,
      <<CropTop + 2, 2, 0>>, <<CropBottom - 2, FrameW - 2, 0>>, <<CropTop, 0, 1>>,
      <<FrameH - 1, FrameW - 1, 2>> }

PixelValues == { Background1, Background2, 255 }

RawShape == <<FrameH, FrameW, 3>>

\* 210 x 160 x 3 uint8 frames with at most MaxPixels non-zero pixels
RawFrames ==
    { [shape |-> RawShape, dtype |-> "uint8", nz |-> f] :
        f \in UNION { [S -> PixelValues] :
                        S \in { T \in SUBSET PixelSites : Cardinality(T) <= MaxPixels } } }

Obs == Contig("obs", RawShape)

IdlePre == [pc |-> "idle", mode |-> None, before |-> NoContents, out |-> NoView]

PreInit ==
    /\ \E c \in RawFrames :
         /\ heap = Alloc(NoHeap, "obs", c)
         /\ pre = [pc |-> "input", mode |-> None, before |-> c, out |-> NoView]
    /\ cls = None /\ cfg = None /\ full_state = None /\ env = None
    /\ ret = None /\ held = None /\ hist = <<>> /\ ever_reset = FALSE

\* process(rawFrame) in the mode of class c
Process(c) ==
    /\ pre.pc = "input"
    /\ LET r == _prepro(c, heap, Obs)
       IN  /\ heap' = r.heap
           /\ pre' = [pre EXCEPT !.pc = "done", !.mode = c, !.out = r.out]
    /\ UNCHANGED <<cls, cfg, full_state, env, ret, held, hist, ever_reset>>

ProcessGeneric == Process("GymAtari")

ProcessPong == Process("GymAtariPong")

PreNext == ProcessGeneric \/ ProcessPong

SpecPrepro == PreInit /\ [][PreNext]_vars

----------------------------------------------------------------------------
(* The adapter, its environment and its caller                              *)

MaxSteps == 4
MaxHeldSteps == 2
MaxAction == 3
MaxState == 5
MaxBins == 3

Classes ==
    GymClasses \cup AtariClasses
    \cup {"UnityMLVectorEnvironment", "UnityMLVisualEnvironmentSimple"}

VisualClasses == AtariClasses \cup {"UnityMLVisualEnvironmentSimple"}

OneHotSizes == {0, 1, 3, 16}

BinChoices == {<<>>} \cup { <<b>> : b \in 1..MaxBins }

\* the environments gym.make(name) yields: kind of observation and of action
\* space, bounds of a 1-D Box action space, observation_space.high[0]
GymEnvs ==
    { [obs |-> "discrete", act |-> "discrete", low |-> 0, high |-> 0, obs_high |-> 0],
      [obs |-> "box", act |-> "box", low |-> -1, high |-> 1, obs_high |-> 2],
      [obs |-> "box", act |-> "box", low |-> -2, high |-> 2, obs_high |-> 255] }

AtariEnv == [obs |-> "frames", act |-> "discrete", low |-> 0, high |-> 0, obs_high |-> 255]

UnityEnv == [obs |-> "unity", act |-> "box", low |-> -1, high |-> 1, obs_high |-> 1]

\* a new environment; max_episode_steps: the steps after which it reports done
Fresh(e, max_steps) ==
    [obs |-> e.obs, act |-> e.act, low |-> e.low, high |-> e.high, obs_high |-> e.obs_high,
     max_episode_steps |-> max_steps,
     started |-> FALSE, done |-> FALSE, steps |-> 0, sent |-> <<>>]

Vector(dtype, xs) ==
    [shape |-> <<Len(xs)>>, dtype |-> dtype,
     nz |-> [idx \in { <<i - 1>> : i \in { j \in DOMAIN xs : ~IsZero(dtype, xs[j]) } } |->
               xs[idx[1] + 1]]]

\* vector observations
BoxObs == { Vector("float64", <<<<1, 1>>, <<0, 1>>>>), Vector("float64", <<<<-1, 2>>, <<2, 1>>>>) }

\* raw Atari frames: 210 x 160 x 3 uint8
AtariFrames ==
    { [shape |-> RawShape, dtype |-> "uint8",
       nz |-> (<<CropTop, 0, 0>> :> 255) @@ (<<CropTop + 2, 2, 0>> :> Background1)],
      [shape |-> RawShape, dtype |-> "uint8",
       nz |-> (<<CropTop + 2, 2, 0>> :> 200) @@ (<<CropTop, 0, 1>> :> 90)
              @@ (<<CropTop, 0, 0>> :> Background2)] }

\* Unity visual observations: 1 x 84 x 84 x 3 floats
UnityFrames ==
    { [shape |-> UnityObsShape, dtype |-> "float64", nz |-> (<<0, 0, 0, 0>> :> <<1, 2>>)],
      [shape |-> UnityObsShape, dtype |-> "float64",
       nz |-> (<<0, 0, 1, 2>> :> <<1, 4>>) @@ (<<0, UnitySize - 1, UnitySize - 1, 2>> :> <<1, 1>>)] }

\* what the environment can answer to reset() or step()
Observations(e) ==
    CASE e.obs = "discrete" -> { Scalar(s) : s \in 0..MaxState }
      [] e.obs = "box" -> BoxObs
      [] e.obs = "frames" -> AtariFrames
      [] e.obs = "unity" -> UnityFrames

ActionsOf(c) == IF c \in GymClasses THEN 0..MaxAction ELSE {0}

\* the last call: the operation, its argument, what the environment
\* answered in it, whether it returned or raised, and what it returned
NoRet ==
    [op |-> "init", action |-> -1, obs |-> NoContents, ok |-> TRUE, error |-> None,
     state |-> NoView, value |-> NoContents, reward |-> 0, done |-> FALSE]

\* an adapter of one of `classes`, just constructed, on an environment with
\* episodes of at most max_steps steps
Construct(classes, max_steps) ==
    /\ cls \in classes
    /\ \/ /\ cls \in GymClasses
          /\ \E e \in GymEnvs, one_hot \in OneHotSizes, bins \in BinChoices, normalize \in BOOLEAN :
               /\ normalize => e.obs = "box"
               /\ cfg = Gym_init(0, one_hot, bins, normalize, e)
               /\ env = Fresh(e, max_steps)
          /\ heap = NoHeap /\ full_state = NoView
       \/ /\ cls \in AtariClasses
          /\ cfg = Gym_init(0, 0, <<>>, FALSE, AtariEnv)
          /\ env = Fresh(AtariEnv, max_steps)
          /\ heap = GymAtari_init_heap /\ full_state = GymAtari_full_state
       \/ /\ cls = "UnityMLVectorEnvironment"
          /\ cfg = [seed |-> 0, brain_name |-> "brain"]
          /\ env = Fresh([UnityEnv EXCEPT !.obs = "box"], max_steps)
          /\ heap = Alloc(NoHeap, "full_state",
                          [shape |-> <<1, 1>>, dtype |-> "float64", nz |-> EmptyNz])
          /\ full_state = Contig("full_state", <<1, 1>>)
       \/ /\ cls = "UnityMLVisualEnvironmentSimple"
          /\ cfg = [brain_name |-> "brain"]
          /\ env = Fresh(UnityEnv, max_steps)
          /\ heap = NoHeap /\ full_state = NoView
    /\ ret = NoRet /\ held = NoView /\ hist = <<>> /\ ever_reset = FALSE
    /\ pre = IdlePre

Init == Construct(Classes, MaxSteps)

\* the heap when a call starts: the state the last call returned is gone
\* unless the caller holds it
AtCall(h) == Free(h, {"returned"})

\* the heap when a call returns: the call's temporaries are gone
AtReturn(h) == Free(h, {"obs", "gray", "resized"})

\* what a call leaves behind when nothing happens in it
Same ==
    [action |-> -1, obs |-> NoContents, ok |-> TRUE, error |-> None,
     state |-> NoView, value |-> NoContents, reward |-> 0, done |-> FALSE,
     cfg |-> cfg, heap |-> AtCall(heap), full_state |-> full_state, held |-> held,
     hist |-> hist, env |-> env]

Raised(r, e) == [r EXCEPT !.ok = FALSE, !.error = e]

\* a call's outcome r becomes the state
Finish(op, r) ==
    /\ ret' = [op |-> op, action |-> r.action, obs |-> r.obs, ok |-> r.ok, error |-> r.error,
               state |-> IF r.ok THEN r.state ELSE NoView,
               value |-> IF r.ok THEN r.value ELSE NoContents,
               reward |-> IF r.ok THEN r.reward ELSE 0,
               done |-> IF r.ok THEN r.done ELSE FALSE]
    /\ cfg' = r.cfg
    /\ heap' = AtReturn(r.heap)
    /\ full_state' = r.full_state
    /\ held' = r.held
    /\ hist' = r.hist
    /\ env' = r.env

\* Gym.reset / GymEnvironment.reset on the observation o of self.env.reset()
Gym_reset_call(r, t) ==
    IF t.ok THEN [r EXCEPT !.value = t.value] ELSE Raised(r, t.error)

\* GymAtari.reset
GymAtari_reset_call(r, g) ==
    [r EXCEPT !.heap = g.heap, !.state = g.state, !.hist = <<g.frame>>]

\* UnityMLVisualEnvironmentSimple.reset: the array self.full_state was bound
\* to lives on when the caller holds it
Unity_reset_call(r, g) ==
    [r EXCEPT !.heap = g.heap, !.state = g.state, !.full_state = g.state,
              !.hist = <<g.frame>>,
              !.held = IF @.buf = "full_state" THEN [@ EXCEPT !.buf = "held"] ELSE @]

Unity_reset_heap(h) ==
    IF held.buf = "full_state" THEN Rename(h, "full_state", "held") ELSE h

\* reset() on the observation o of the environment, which is reset
reset(r, o) ==
    IF cls \in GymClasses THEN Gym_reset_call(r, Gym_transform(cfg, o))
    ELSE IF cls \in AtariClasses
    THEN GymAtari_reset_call(r, GymAtari_reset(cls, Alloc(r.heap, "obs", o), full_state,
                                               Contig("obs", o.shape)))
    ELSE IF cls = "UnityMLVisualEnvironmentSimple"
    THEN Unity_reset_call(r, Unity_reset(Alloc(Unity_reset_heap(r.heap), "obs", o),
                                         Contig("obs", o.shape)))
    ELSE [r EXCEPT !.value = o]

Reset ==
    /\ pre.pc = "idle"
    /\ \E o \in Observations(env) :
         Finish("reset",
                reset([Same EXCEPT !.env.started = TRUE, !.env.done = FALSE, !.env.steps = 0,
                                   !.obs = o], o))
    /\ ever_reset' = TRUE
    /\ UNCHANGED <<cls, pre>>

\* Gym.step / GymEnvironment.step after self.env.step answered o
Gym_step_call(r, t) ==
    IF t.ok THEN [r EXCEPT !.value = t.value] ELSE Raised(r, t.error)

\* GymAtari.step
GymAtari_step_call(r, g) ==
    [r EXCEPT !.heap = g.heap, !.state = g.state,
              !.hist = IF @ = <<>> THEN @ ELSE Append(@, g.frame)]

\* UnityMLVisualEnvironmentSimple.step
Unity_step_call(r, g) ==
    [r EXCEPT !.heap = g.heap, !.state = g.state, !.hist = Append(@, g.frame)]

\* the action self.env.step receives
sent_action(action) ==
    IF cls \in GymClasses THEN Gym_step_action(cfg, env, action)
    ELSE [ok |-> TRUE, error |-> None, value |-> [list |-> FALSE, val |-> <<action, 1>>]]

\* step(action) once the environment has answered (o, reward, done); r
\* holds the environment after its step
step(r, o) ==
    IF cls \in GymClasses THEN Gym_step_call(r, Gym_transform(cfg, o))
    ELSE IF cls \in AtariClasses
    THEN GymAtari_step_call(r, GymAtari_step(cls, Alloc(r.heap, "obs", o), full_state,
                                             Contig("obs", o.shape)))
    ELSE IF cls = "UnityMLVisualEnvironmentSimple"
    THEN IF full_state = NoView THEN Raised(r, "TypeError")
         ELSE Unity_step_call(r, Unity_step(Alloc(r.heap, "obs", o), full_state,
                                            Contig("obs", o.shape)))
    ELSE [r EXCEPT !.value = o]

\* step(action), with the action a that self.env.step is to receive.  An
\* environment stepped before its first reset either refuses (the wrappers
\* of gym do) or answers.
step_sending(action, a, o, reward, done, refuses) ==
    IF ~a.ok THEN Raised([Same EXCEPT !.action = action], a.error)
    ELSE IF refuses THEN Raised([Same EXCEPT !.action = action], "ResetNeeded")
    ELSE step([Same EXCEPT !.env.steps = @ + 1, !.env.done = done, !.env.sent = <<a.value>>,
                           !.action = action, !.obs = o, !.reward = reward, !.done = done], o)

Step ==
    /\ pre.pc = "idle"
    /\ ~env.done
    /\ \E action \in ActionsOf(cls), o \in Observations(env), reward \in {1},
          done \in (IF env.steps + 1 >= env.max_episode_steps THEN {TRUE} ELSE BOOLEAN),
          refuses \in (IF env.started THEN {FALSE} ELSE BOOLEAN) :
         Finish("step", step_sending(action, sent_action(action), o, reward, done, refuses))
    /\ UNCHANGED <<cls, ever_reset, pre>>

\* render() that starts the frame stack afresh
render_clearing(r) ==
    IF r.full_state = NoView THEN r
    ELSE [r EXCEPT !.heap = Assign(@, r.full_state,
                                   [shape |-> r.full_state.shape, dtype |-> "float32",
                                    nz |-> EmptyNz])]

\* render(): self.env.render() and time.sleep(self.frame_sleep) in the Gym
\* classes, pass in the Unity classes; no attribute of the adapter is assigned
render(r) == r

Render ==
    /\ pre.pc = "idle"
    /\ Finish("render", render(Same))
    /\ UNCHANGED <<cls, ever_reset, pre>>

\* the caller keeps the state the last call returned
Hold ==
    /\ pre.pc = "idle"
    /\ ret.ok /\ ret.state # NoView /\ held = NoView
    /\ IF ret.state.buf = "returned"
       THEN /\ heap' = Rename(heap, "returned", "held")
            /\ held' = [ret.state EXCEPT !.buf = "held"]
            /\ ret' = [ret EXCEPT !.state.buf = "held"]
       ELSE /\ held' = ret.state
            /\ UNCHANGED <<heap, ret>>
    /\ UNCHANGED <<cls, cfg, full_state, env, hist, ever_reset, pre>>

Origin(v) == [k \in DOMAIN v.shape |-> 0]

\* the caller writes into the state it holds
CallerWrite ==
    /\ pre.pc = "idle"
    /\ held # NoView
    /\ At(heap, held, Origin(held)) # <<9, 1>>
    /\ heap' = SetAt(heap, held, Origin(held), <<9, 1>>)
    /\ UNCHANGED <<cls, cfg, full_state, env, ret, held, hist, ever_reset, pre>>

\* a training driver: it uses each returned state before its next call
Next == Reset \/ Step \/ Render

Spec == Init /\ [][Next]_vars

\* a caller that keeps a returned state across later calls, on GymAtari
InitCaller == Construct(AtariClasses, MaxHeldSteps)

NextCaller == Reset \/ Step \/ Hold \/ CallerWrite

SpecCaller == InitCaller /\ [][NextCaller]_vars

----------------------------------------------------------------------------
(* Properties of the adapters                                               *)

\* the array value c without axis `axis`, at position k of that axis
SlotOf(c, axis, k) ==
    [shape |-> DropAt(c.shape, axis), dtype |-> c.dtype,
     nz |-> [idx \in { DropAt(i, axis) : i \in { j \in DOMAIN c.nz : j[axis] = k } } |->
               c.nz[SubSeq(idx, 1, axis - 1) \o <<k>> \o SubSeq(idx, axis, Len(idx))]]]

\* the frame value f as an array of dtype `dtype` holds it
Stored(f, dtype) ==
    [shape |-> f.shape, dtype |-> dtype,
     nz |-> [idx \in DOMAIN f.nz |-> Cast(f.nz[idx], f.dtype, dtype)]]

\* the axis of the frame stack along which the frames lie (counted from 1)
StackAxis == IF cls \in AtariClasses THEN 2 ELSE 3

StackValue == IF full_state = NoView THEN NoContents ELSE Contents(heap, full_state)

ReturnedValue == IF ret.state = NoView THEN ret.value ELSE Contents(heap, ret.state)

HeldValue == IF held = NoView THEN NoContents ELSE Contents(heap, held)

\* slot k of the stack value c holds the processed frame f
SlotHolds(c, k, f) == SlotOf(c, StackAxis, k) = Stored(f, c.dtype)

\* C1: on a visual adapter, reset() called in any state leaves and returns
\* a frame stack whose 4 slots all equal the processed first frame of the
\* new episode (as the stack's dtype holds it).
C1_ResetFillsAllSlots ==
    (cls \in VisualClasses /\ ret.op = "reset") =>
        /\ ret.ok
        /\ \A k \in 0..3 :
             /\ SlotHolds(StackValue, k, hist[1])
             /\ SlotHolds(ReturnedValue, k, hist[1])

\* a reset in the middle of an episode, onto a stack of other frames
C1_Witness ==
    /\ cls = "GymAtari" /\ ret.op = "reset" /\ env.sent # <<>> /\ ever_reset
    /\ DOMAIN hist[1].nz # {}
    /\ SlotHolds(StackValue, 3, hist[1])

\* C2: after reset() yielding F0 and N step() calls yielding F1..FN, slot i
\* of the stack (slot 0 the newest) holds F(N-i) when i <= N and F0 when
\* i > N; each step() has pushed exactly one frame.
C2_StackOrder ==
    (cls \in VisualClasses /\ hist # <<>>) =>
        LET N == Len(hist) - 1
        IN  /\ N = env.steps
            /\ \A i \in 0..3 :
                 SlotHolds(StackValue, i, hist[(IF i <= N THEN N - i ELSE 0) + 1])
            /\ (ret.op \in {"reset", "step"}) => ReturnedValue = StackValue

\* four steps after a reset: F0 is evicted
C2_Witness ==
    /\ cls \in VisualClasses /\ Len(hist) = 5
    /\ hist[1] # hist[2]
    /\ \A k \in 0..3 : ~SlotHolds(StackValue, k, hist[1])

\* C3: step() or render() on an adapter on which reset() has never been
\* called fails with AdapterNotReady and returns no transition.
C3_NotReadyFails ==
    (~ever_reset /\ ret.op \in {"step", "render"}) =>
        /\ ~ret.ok
        /\ ret.error = "AdapterNotReady"

\* C4: every state reset() or step() returns on one adapter instance has
\* the shape and dtype fixed by its construction; on GymAtari, 4 frames of
\* 80x80 (float32), also from a step() issued before the first reset.
C4_StateShapeFixed ==
    (ret.op \in {"reset", "step"} /\ ret.ok) =>
        /\ cls \in AtariClasses =>
             ReturnedValue.shape = <<1, 4, 80, 80>> /\ ReturnedValue.dtype = "float32"
        /\ cls = "UnityMLVisualEnvironmentSimple" =>
             ReturnedValue.shape = <<1, 3, 4, 84, 84>> /\ ReturnedValue.dtype = "float64"
        /\ cls = "UnityMLVectorEnvironment" =>
             ReturnedValue.shape = <<2>> /\ ReturnedValue.dtype = "float64"
        /\ (cls \in GymClasses /\ cfg.one_hot # 0) =>
             ReturnedValue.shape = <<cfg.one_hot>> /\ ReturnedValue.dtype = "float64"
        /\ (cls \in GymClasses /\ cfg.one_hot = 0 /\ env.obs = "box") =>
             ReturnedValue.shape = <<2>> /\ ReturnedValue.dtype = "float64"
        /\ (cls \in GymClasses /\ cfg.one_hot = 0 /\ env.obs = "discrete") =>
             ReturnedValue.shape = <<>> /\ ReturnedValue.dtype = "int64"

\* a step() before the first reset that returned a state
C4_Witness ==
    /\ cls = "GymAtari" /\ ~ever_reset /\ ret.op = "step" /\ ret.ok
    /\ ReturnedValue.shape = <<1, 4, 80, 80>>
    /\ DOMAIN SlotOf(ReturnedValue, 2, 0).nz # {}

\* C5: with one_hot = n >= 1 and no normalization, when the environment
\* returns the discrete state s with 0 <= s < n, reset() and step() return
\* the length-n vector with a single 1 at position s.
C5_OneHot ==
    (/\ cls \in GymClasses /\ cfg.one_hot >= 1 /\ ~cfg.normalize
     /\ ret.op \in {"reset", "step"} /\ ret.obs # NoContents
     /\ ret.obs.shape = <<>> /\ ValAt(ret.obs, <<>>) < cfg.one_hot) =>
        /\ ret.ok
        /\ ret.value.shape = <<cfg.one_hot>>
        /\ \A j \in 0..(cfg.one_hot - 1) :
             ValAt(ret.value, <<j>>) = IF j = ValAt(ret.obs, <<>>) THEN <<1, 1>> ELSE <<0, 1>>

\* n = 16, s = 5, from reset() and from step()
C5_Witness ==
    /\ cls \in GymClasses /\ cfg.one_hot = 16 /\ ~cfg.normalize /\ ret.op = "step"
    /\ ret.obs = Scalar(5) /\ ret.ok
    /\ ValAt(ret.value, <<5>>) = <<1, 1>>

C9_RenderChangesNothing ==
    [][/\ cfg' = cfg
       /\ ret'.op = "render" => (StackValue' = StackValue /\ full_state' = full_state)]_vars

\* render() in the middle of an episode of a visual adapter
C9_Witness ==
    /\ cls \in VisualClasses /\ ret.op = "render" /\ Len(hist) >= 2
    /\ DOMAIN StackValue.nz # {}

\* C10: a state GymAtari.reset() or GymAtari.step() returned is a snapshot:
\* no later call changes it, and the caller writing into it does not
\* change the adapter's frame stack.
C10_ReturnedStateIsSnapshot ==
    [][/\ (held # NoView /\ HeldValue' # HeldValue) =>
             (ret' = ret /\ env' = env /\ StackValue' = StackValue)
       /\ (held # NoView /\ ret' = ret /\ env' = env) => StackValue' = StackValue]_vars

\* the caller wrote into a state it holds, and a later step went by
C10_Witness ==
    /\ held # NoView /\ ret.op = "step" /\ ret.state # held
    /\ At(heap, held, Origin(held)) = <<9, 1>>
    /\ At(heap, full_state, Origin(full_state)) # <<9, 1>>
    /\ HeldValue # ReturnedValue

----------------------------------------------------------------------------
(* Properties of the pre-processors                                         *)

\* C6: process(rawFrame) has no side effects in either mode: the raw frame
\* holds the same pixel values after the call as before it, and the result
\* is a new tensor that shares no storage with the input.
C6_PreproHasNoSideEffects ==
    pre.pc = "done" =>
        /\ Contents(heap, Obs) = pre.before
        /\ pre.out.buf # Obs.buf

\* C8: the Pong pre-processor maps a 210x160x3 frame of 8-bit values to an
\* 80x80 frame of 0s and 1s: output pixel (r, c) is 0 exactly when channel 0
\* of input pixel (35 + 2r, 2c) is 0, 144 or 109, and 1 otherwise.
C8_PongBinarizes ==
    (pre.pc = "done" /\ pre.mode = "GymAtariPong") =>
        /\ pre.out.shape = <<80, 80>>
        /\ \A r \in 0..79, c \in 0..79 :
             LET o == At(heap, pre.out, <<r, c>>)
                 i == ValAt(pre.before, <<35 + 2 * r, 2 * c, 0>>)
             IN  /\ o \in {0, 1}
                 /\ (o = 0) <=> (i \in {0, 144, 109})

\* a Pong frame with a background pixel and a foreground pixel on the grid
C8_Witness ==
    /\ pre.pc = "done" /\ pre.mode = "GymAtariPong"
    /\ ValAt(pre.before, <<35, 0, 0>>) = 144
    /\ ValAt(pre.before, <<37, 2, 0>>) = 255
    /\ At(heap, pre.out, <<0, 0>>) = 0
    /\ At(heap, pre.out, <<1, 1>>) = 1

====
